---- MODULE Spec2Model ----
(***************************************************************************)
(* A model of PDFRenamer (src/pdf_renamer.py): the Tk main thread, whose   *)
(* callbacks change the selections and the two checkboxes, and the batch   *)
(* worker thread that runs rename_files.  Strings are sequences of         *)
(* one-character strings, so that substring search, lowercasing, path      *)
(* joining and the "_<counter>" suffix are computed as the code computes   *)
(* them.  The worker is cut into steps at the places where it reads a      *)
(* field of the object that a callback of the main thread may write.       *)
(***************************************************************************)
EXTENDS Integers, Sequences, FiniteSets, TLC

\* ------------------------------------------------------------- bounds
\* Number of PDF files that exist in the source directory.
MaxFiles == 2
\* Number of worker threads started in one behaviour.
MaxBatches == 2
\* Number of selection and checkbox callbacks that run while one worker thread
\* does.
MaxEdits == 1
\* Length of the texts and catalogs enumerated for the matcher alone.
MaxText == 2
MaxCat == 2
\* Number of numbered siblings that may pre-exist for the resolver alone.
MaxTaken == 2

\* ------------------------------------------------------------ strings
Digits == <<"0", "1", "2", "3", "4", "5", "6", "7", "8", "9">>

RECURSIVE Str(_)
\* str(counter) inside the f-string of generate_unique_filename
Str(n) == IF n < 10 THEN <<Digits[n + 1]>>
          ELSE Str(n \div 10) \o <<Digits[(n % 10) + 1]>>

\* str.lower() on the characters of the model's alphabet
LowerChar(c) == CASE c = "A" -> "a" [] c = "B" -> "b" [] OTHER -> c

Lower(s) == [i \in 1..Len(s) |-> LowerChar(s[i])]

\* the `in` operator on two strings
Contains(text, name) ==
    \E i \in 0..(Len(text) - Len(name)) : SubSeq(text, i + 1, i + Len(name)) = name

RECURSIVE Strip(_)
\* str.strip() (the model's only whitespace is the blank)
Strip(s) == IF s = <<>> THEN s
            ELSE IF Head(s) = " " THEN Strip(Tail(s))
            ELSE IF s[Len(s)] = " " THEN Strip(SubSeq(s, 1, Len(s) - 1))
            ELSE s

\* position of the last c in s, 0 when there is none
LastIndex(s, c) ==
    IF \E i \in 1..Len(s) : s[i] = c
    THEN CHOOSE i \in 1..Len(s) : s[i] = c /\ \A j \in (i + 1)..Len(s) : s[j] # c
    ELSE 0

\* os.path.join(directory, filename)
Join(d, f) == IF d = <<>> THEN f ELSE d \o <<"/">> \o f

\* the directory part and Path(p).name, Path(p).stem
Dirname(p) == SubSeq(p, 1, LastIndex(p, "/") - 1)

PathName(p) == SubSeq(p, LastIndex(p, "/") + 1, Len(p))

PathStem(p) == LET n == PathName(p)
                   d == LastIndex(n, ".")
               IN IF d > 1 /\ d < Len(n) THEN SubSeq(n, 1, d - 1) ELSE n

PdfExt == <<".", "p", "d", "f">>

\* --------------------------------------------------------- environment
\* The source directory, the one directory the directory dialog offers, and ""
\* (no selection; as a path, the working directory).
SrcDir == <<"s">>
OutDir == <<"o">>
NoSel == <<>>

StemChars == <<"x", "y", "z", "w", "v">>

SrcPath(i) == Join(SrcDir, <<StemChars[i]>> \o PdfExt)

SrcPaths == {SrcPath(i) : i \in 1..MaxFiles}

\* What fitz.open + get_text gives for a file: its text, or an exception (the
\* content that is no text).
Corrupt == <<"corrupt">>
SomeText == <<"B", "A">>
PdfContents == {Corrupt, <<>>, SomeText}

\* The catalog files the file dialog offers, as their lines.
CsvFiles == {"names.csv", "blank.csv", "missing.csv"}

CsvReadable(f) == f # "missing.csv"

CsvLines(f) == CASE f = "names.csv" -> << <<" ", "b">>, <<>>, <<"a", " ">> >>
                 [] f = "blank.csv" -> << <<" ">>, <<>> >>
                 [] OTHER -> <<>>

\* --------------------------------------------------------------- state
VARIABLES
    \* fields of PDFRenamer, written by the callbacks of the main thread
    pdf_files, csv_file, output_dir, case_sensitive_var, fully_rename_var,
    start_button,
    \* the filesystem: path -> content of every file, and the directories
    files, dirs,
    \* the worker threads that were started and have not ended, and the worker
    \* thread's position in rename_files and its locals
    threads, pc, name_list, renamed_count, total_files, batch, index, pdf_file,
    pdf_content, ni, found_name, new_filename, new_filepath,
    \* what the last press of the start button has led to, until the worker
    \* thread it started is over: the calls of log_message and
    \* progress_label.config, the os.rename calls that succeeded, the number of
    \* error dialogs, how rename_files ended, and the state it was started in
    log, moves, errors, ended, cfg0,
    \* the counters that bound a behaviour: worker threads started, and the
    \* callbacks that ran while the current one does
    batches, edits

ui == <<pdf_files, csv_file, output_dir, case_sensitive_var, fully_rename_var>>
env == <<files, dirs>>
locals == <<name_list, renamed_count, total_files, batch, index, pdf_file,
            pdf_content, ni, found_name, new_filename, new_filepath>>
hist == <<log, moves, errors, ended, cfg0>>
counters == <<batches, edits>>
vars == <<ui, start_button, env, threads, pc, locals, hist, counters>>

\* found_name = None
None == <<>>

Event(kind, idx, n, file) == [kind |-> kind, idx |-> idx, n |-> n, file |-> file]

Snapshot == [pdf_files |-> pdf_files, csv_file |-> csv_file,
             output_dir |-> output_dir,
             case_sensitive_var |-> case_sensitive_var,
             fully_rename_var |-> fully_rename_var,
             files |-> files, dirs |-> dirs]

NoSnapshot == [pdf_files |-> <<>>, csv_file |-> "", output_dir |-> NoSel,
               case_sensitive_var |-> FALSE, fully_rename_var |-> FALSE,
               files |-> <<>>, dirs |-> {}]

NoLocals ==
    /\ name_list = <<>> /\ renamed_count = 0 /\ total_files = 0
    /\ batch = <<>> /\ index = -1 /\ pdf_file = <<>> /\ pdf_content = <<>>
    /\ ni = 0 /\ found_name = None /\ new_filename = <<>> /\ new_filepath = <<>>

\* __init__, with the PDF files of the source directory: the first is corrupt,
\* without text, or like the others
Init ==
    /\ pdf_files = <<>> /\ csv_file = "" /\ output_dir = NoSel
    /\ case_sensitive_var = FALSE /\ fully_rename_var = FALSE
    /\ start_button = "normal"
    /\ \E first \in PdfContents :
         files = [p \in SrcPaths |-> IF p = SrcPath(1) THEN first ELSE SomeText]
    /\ dirs = {<<>>, SrcDir}
    /\ threads = 0 /\ pc = "idle" /\ NoLocals
    /\ log = <<>> /\ moves = <<>> /\ errors = 0 /\ ended = "none"
    /\ cfg0 = NoSnapshot
    /\ batches = 0 /\ edits = 0

\* A callback of the main thread other than the start button's.
Edit ==
    /\ pc = "idle" \/ edits < MaxEdits
    /\ edits' = IF pc = "idle" THEN 0 ELSE edits + 1
    /\ UNCHANGED <<batches, threads>>

\* ------------------------------------------------- main-thread callbacks
\* What askopenfilenames can return: some of the existing PDFs of the source
\* directory, in the order of the directory listing.
Selections ==
    {s \in UNION {[1..n -> 1..MaxFiles] : n \in 1..MaxFiles} :
        /\ \A i \in 1..Len(s) : SrcPath(s[i]) \in DOMAIN files
        /\ \A i, j \in 1..Len(s) : i < j => s[i] < s[j]}

select_pdf_files ==
    /\ Edit
    /\ \E sel \in Selections \cup {<<>>} :
         pdf_files' = [i \in 1..Len(sel) |-> SrcPath(sel[i])]
    /\ UNCHANGED <<csv_file, output_dir, case_sensitive_var, fully_rename_var,
                   start_button, env, pc, locals, hist>>

select_csv_file ==
    /\ Edit
    /\ \E f \in CsvFiles \cup {""} : csv_file' = f
    /\ UNCHANGED <<pdf_files, output_dir, case_sensitive_var, fully_rename_var,
                   start_button, env, pc, locals, hist>>

select_output_dir ==
    /\ Edit
    /\ \E d \in {OutDir, NoSel} : output_dir' = d
    /\ UNCHANGED <<pdf_files, csv_file, case_sensitive_var, fully_rename_var,
                   start_button, env, pc, locals, hist>>

clear_all ==
    /\ Edit
    /\ pdf_files' = <<>> /\ csv_file' = "" /\ output_dir' = NoSel
    /\ UNCHANGED <<case_sensitive_var, fully_rename_var,
                   start_button, env, pc, locals, hist>>

toggle_case_sensitive ==
    /\ Edit
    /\ case_sensitive_var' = ~case_sensitive_var
    /\ UNCHANGED <<pdf_files, csv_file, output_dir, fully_rename_var,
                   start_button, env, pc, locals, hist>>

toggle_fully_rename ==
    /\ Edit
    /\ fully_rename_var' = ~fully_rename_var
    /\ UNCHANGED <<pdf_files, csv_file, output_dir, case_sensitive_var,
                   start_button, env, pc, locals, hist>>

\* all([self.pdf_files, self.csv_file, self.output_dir])
AllSelected == pdf_files # <<>> /\ csv_file # "" /\ output_dir # NoSel

start_renaming ==
    /\ start_button = "normal"
    /\ log' = <<>> /\ moves' = <<>>
    /\ IF AllSelected
       THEN /\ batches < MaxBatches
            /\ start_button' = "disabled"
            /\ threads' = threads + 1
            /\ pc' = "check"
            /\ errors' = 0 /\ ended' = "running"
            /\ cfg0' = Snapshot
            /\ batches' = batches + 1
            /\ UNCHANGED edits
       ELSE /\ errors' = 1 /\ ended' = "not started"
            /\ UNCHANGED <<start_button, threads, pc, cfg0, counters>>
    /\ UNCHANGED <<ui, env, locals>>

\* ------------------------------------------------------- pure helpers
NonEmpty(s) == s # <<>>

\* load_name_list (lines 334-346): the stripped non-empty lines in file order,
\* [] when the file cannot be opened
load_name_list(f) ==
    IF f \in CsvFiles /\ CsvReadable(f)
    THEN SelectSeq([i \in 1..Len(CsvLines(f)) |-> Strip(CsvLines(f)[i])], NonEmpty)
    ELSE <<>>

\* A matcher that lowercases the catalog name only.
NameMatches_NameOnlyLowered(name, content, case_sensitive) ==
    IF case_sensitive
    THEN Contains(content, name)
    ELSE Contains(content, Lower(name))

\* the test of one catalog name against the text (lines 397-404)
NameMatches(name, content, case_sensitive) ==
    IF case_sensitive
    THEN Contains(content, name)
    ELSE Contains(Lower(content), Lower(name))

\* lines 410-413
NewFilename(name, original_filename, fully_rename) ==
    IF fully_rename THEN name ELSE name \o <<"_">> \o original_filename

\* os.path.exists
Exists(path) == path \in DOMAIN files \/ path \in dirs

RECURSIVE UniqueLoop(_, _, _, _)
\* the while loop of generate_unique_filename (lines 353-357)
UniqueLoop(base_path, extension, new_path, counter) ==
    IF Exists(new_path \o extension)
    THEN UniqueLoop(base_path, extension,
                    base_path \o <<"_">> \o Str(counter), counter + 1)
    ELSE new_path \o extension

\* A resolver that numbers from 0.
generate_unique_filename_From0(base_path, extension) ==
    UniqueLoop(base_path, extension, base_path, 0)

generate_unique_filename(base_path, extension) ==
    UniqueLoop(base_path, extension, base_path, 1)

\* A resolver that does not look whether the path is taken.
ResolvedPath_Unchecked(filepath, directory, filename) == filepath

\* lines 418-422: the path os.rename is given
ResolvedPath(filepath, directory, filename) ==
    IF Exists(filepath)
    THEN generate_unique_filename(Join(directory, filename), PdfExt)
    ELSE filepath

\* whether fitz can extract the text of the file at this path
Readable(path) == path \in DOMAIN files /\ files[path] # Corrupt

\* os.rename cannot succeed without its source and the destination's directory
CanRename(src, dst) == src \in DOMAIN files /\ Dirname(dst) \in dirs

\* the filesystem after os.rename(src, dst)
Renamed(src, dst) ==
    [p \in (DOMAIN files \ {src}) \cup {dst} |->
        IF p = dst THEN files[src] ELSE files[p]]

\* --------------------------------------------------- the worker thread
\* rename_files, lines 361-363
rename_files_check ==
    /\ pc = "check"
    /\ IF AllSelected
       THEN pc' = "makedirs" /\ UNCHANGED <<errors, ended>>
       ELSE pc' = "finally" /\ errors' = errors + 1 /\ ended' = "unselected"
    /\ UNCHANGED <<ui, start_button, env, locals, log, moves, cfg0>>
    /\ UNCHANGED <<counters, threads>>

\* line 366: os.makedirs(self.output_dir, exist_ok=True); "" and a directory
\* that cannot be created raise, and nothing in rename_files catches it
rename_files_makedirs ==
    /\ pc = "makedirs"
    /\ \E created \in BOOLEAN :
         IF output_dir # NoSel /\ (output_dir \in dirs \/ created)
         THEN /\ dirs' = dirs \cup {output_dir}
              /\ pc' = "load"
              /\ UNCHANGED ended
         ELSE /\ pc' = "finally" /\ ended' = "exception"
              /\ UNCHANGED dirs
    /\ UNCHANGED <<ui, start_button, files, locals, log, moves, errors, cfg0>>
    /\ UNCHANGED <<counters, threads>>

\* A load step that shows the error and goes on into the loop.
rename_files_load_NoReturn ==
    /\ pc = "load"
    /\ LET names == load_name_list(csv_file)
           read == IF csv_file \in CsvFiles /\ CsvReadable(csv_file) THEN <<>>
                   ELSE <<Event("csv error", 0, 0, <<>>)>>
       IN IF names = <<>>
          THEN /\ log' = log \o read
               /\ errors' = errors + 1 /\ ended' = "no names"
               /\ pc' = "total"
               /\ UNCHANGED <<name_list, renamed_count>>
          ELSE /\ log' = log \o read \o <<Event("loaded", 0, Len(names), <<>>)>>
               /\ name_list' = names
               /\ renamed_count' = 0
               /\ pc' = "total"
               /\ UNCHANGED <<errors, ended>>
    /\ UNCHANGED <<ui, start_button, env, total_files, batch, index, pdf_file,
                   pdf_content, ni, found_name, new_filename, new_filepath,
                   moves, cfg0>>
    /\ UNCHANGED <<counters, threads>>

\* lines 369-377
rename_files_load ==
    /\ pc = "load"
    /\ LET names == load_name_list(csv_file)
           read == IF csv_file \in CsvFiles /\ CsvReadable(csv_file) THEN <<>>
                   ELSE <<Event("csv error", 0, 0, <<>>)>>
       IN IF names = <<>>
          THEN /\ log' = log \o read
               /\ errors' = errors + 1 /\ ended' = "no names"
               /\ pc' = "finally"
               /\ UNCHANGED <<name_list, renamed_count>>
          ELSE /\ log' = log \o read \o <<Event("loaded", 0, Len(names), <<>>)>>
               /\ name_list' = names
               /\ renamed_count' = 0
               /\ pc' = "total"
               /\ UNCHANGED <<errors, ended>>
    /\ UNCHANGED <<ui, start_button, env, total_files, batch, index, pdf_file,
                   pdf_content, ni, found_name, new_filename, new_filepath,
                   moves, cfg0>>
    /\ UNCHANGED <<counters, threads>>

\* lines 378-380
rename_files_total ==
    /\ pc = "total"
    /\ total_files' = Len(pdf_files)
    /\ pc' = "iter"
    /\ UNCHANGED <<ui, start_button, env, name_list, renamed_count, batch, index,
                   pdf_file, pdf_content, ni, found_name, new_filename,
                   new_filepath, hist>>
    /\ UNCHANGED <<counters, threads>>

\* line 382: enumerate(self.pdf_files) takes the list the field holds now
rename_files_iter ==
    /\ pc = "iter"
    /\ batch' = pdf_files
    /\ index' = -1
    /\ pc' = "next"
    /\ UNCHANGED <<ui, start_button, env, name_list, renamed_count, total_files,
                   pdf_file, pdf_content, ni, found_name, new_filename,
                   new_filepath, hist>>
    /\ UNCHANGED <<counters, threads>>

\* A progress display that shows the 0-based index.
rename_files_next_ZeroBased ==
    /\ pc = "next"
    /\ IF index + 1 < Len(batch)
       THEN /\ index' = index + 1
            /\ pdf_file' = batch[index + 2]
            /\ log' = log \o <<Event("progress", index + 1, total_files,
                                     PathName(batch[index + 2]))>>
            /\ pc' = "read"
       ELSE /\ pc' = "summary"
            /\ pdf_file' = <<>>
            /\ UNCHANGED <<index, log>>
    /\ pdf_content' = <<>> /\ ni' = 0 /\ found_name' = None
    /\ new_filename' = <<>> /\ new_filepath' = <<>>
    /\ UNCHANGED <<ui, start_button, env, name_list, renamed_count, total_files,
                   batch, moves, errors, ended, cfg0>>
    /\ UNCHANGED <<counters, threads>>

\* lines 382-386: the next file of the list and its progress display
rename_files_next ==
    /\ pc = "next"
    /\ IF index + 1 < Len(batch)
       THEN /\ index' = index + 1
            /\ pdf_file' = batch[index + 2]
            /\ log' = log \o <<Event("progress", index + 2, total_files,
                                     PathName(batch[index + 2]))>>
            /\ pc' = "read"
       ELSE /\ pc' = "summary"
            /\ pdf_file' = <<>>
            /\ UNCHANGED <<index, log>>
    /\ pdf_content' = <<>> /\ ni' = 0 /\ found_name' = None
    /\ new_filename' = <<>> /\ new_filepath' = <<>>
    /\ UNCHANGED <<ui, start_button, env, name_list, renamed_count, total_files,
                   batch, moves, errors, ended, cfg0>>
    /\ UNCHANGED <<counters, threads>>

\* A read step without the `if not pdf_content` test after a successful read.
rename_files_read_NoEmptyCheck ==
    /\ pc = "read"
    /\ LET ok == Readable(pdf_file)
           content == IF ok THEN files[pdf_file] ELSE <<>>
           err == IF ok THEN <<>>
                  ELSE <<Event("read error", index + 1, 0, pdf_file)>>
       IN IF ~ok
          THEN /\ log' = log \o err \o
                    <<Event("could not read", index + 1, 0, PathName(pdf_file))>>
               /\ pc' = "next"
               /\ UNCHANGED <<pdf_content, ni>>
          ELSE /\ pdf_content' = content
               /\ ni' = 1
               /\ pc' = "match"
               /\ UNCHANGED log
    /\ UNCHANGED <<ui, start_button, env, name_list, renamed_count, total_files,
                   batch, index, pdf_file, found_name, new_filename, new_filepath,
                   moves, errors, ended, cfg0>>
    /\ UNCHANGED <<counters, threads>>

\* lines 389-392 with read_pdf_content (lines 321-332)
rename_files_read ==
    /\ pc = "read"
    /\ LET ok == Readable(pdf_file)
           content == IF ok THEN files[pdf_file] ELSE <<>>
           err == IF ok THEN <<>>
                  ELSE <<Event("read error", index + 1, 0, pdf_file)>>
       IN IF content = <<>>
          THEN /\ log' = log \o err \o
                    <<Event("could not read", index + 1, 0, PathName(pdf_file))>>
               /\ pc' = "next"
               /\ UNCHANGED <<pdf_content, ni>>
          ELSE /\ pdf_content' = content
               /\ ni' = 1
               /\ pc' = "match"
               /\ UNCHANGED log
    /\ UNCHANGED <<ui, start_button, env, name_list, renamed_count, total_files,
                   batch, index, pdf_file, found_name, new_filename, new_filepath,
                   moves, errors, ended, cfg0>>
    /\ UNCHANGED <<counters, threads>>

\* lines 396-404: one iteration of the loop over name_list
rename_files_match ==
    /\ pc = "match"
    /\ IF ni <= Len(name_list)
       THEN IF NameMatches(name_list[ni], pdf_content, case_sensitive_var)
            THEN found_name' = name_list[ni] /\ pc' = "name" /\ UNCHANGED ni
            ELSE ni' = ni + 1 /\ UNCHANGED <<found_name, pc>>
       ELSE pc' = "name" /\ UNCHANGED <<found_name, ni>>
    /\ UNCHANGED <<ui, start_button, env, name_list, renamed_count, total_files,
                   batch, index, pdf_file, pdf_content, new_filename,
                   new_filepath, hist>>
    /\ UNCHANGED <<counters, threads>>

\* lines 406-416 and 428-429
rename_files_name ==
    /\ pc = "name"
    /\ IF found_name # None
       THEN /\ new_filename' =
                   NewFilename(found_name, PathStem(pdf_file), fully_rename_var)
            /\ new_filepath' = Join(output_dir, new_filename' \o PdfExt)
            /\ pc' = "unique"
            /\ UNCHANGED log
       ELSE /\ log' = log \o
                    <<Event("no match", index + 1, 0, PathName(pdf_file))>>
            /\ pc' = "next"
            /\ UNCHANGED <<new_filename, new_filepath>>
    /\ UNCHANGED <<ui, start_button, env, name_list, renamed_count, total_files,
                   batch, index, pdf_file, pdf_content, ni, found_name,
                   moves, errors, ended, cfg0>>
    /\ UNCHANGED <<counters, threads>>

\* lines 418-422
rename_files_unique ==
    /\ pc = "unique"
    /\ new_filepath' = ResolvedPath(new_filepath, output_dir, new_filename)
    /\ pc' = "move"
    /\ UNCHANGED <<ui, start_button, env, name_list, renamed_count, total_files,
                   batch, index, pdf_file, pdf_content, ni, found_name,
                   new_filename, hist>>
    /\ UNCHANGED <<counters, threads>>

\* A move that removes the source before it fails.
FailedRename_SourceLost(fs, count) ==
    <<[q \in DOMAIN fs \ {pdf_file} |-> fs[q]], count>>

\* what a failed os.rename leaves of the filesystem and the count
FailedRename(fs, count) == <<fs, count>>

\* A loop body without try/except: a failed os.rename ends rename_files.
rename_files_move_Uncaught ==
    /\ pc = "move"
    /\ \E permitted \in BOOLEAN :
         IF permitted /\ CanRename(pdf_file, new_filepath)
         THEN /\ files' = Renamed(pdf_file, new_filepath)
              /\ moves' = Append(moves,
                     [src |-> pdf_file, dst |-> new_filepath, idx |-> index + 1,
                      text |-> pdf_content, name |-> found_name,
                      existed |-> Exists(new_filepath)])
              /\ log' = log \o <<Event("renamed", index + 1, 0,
                                       PathName(new_filepath))>>
              /\ renamed_count' = renamed_count + 1
         ELSE /\ files' = FailedRename(files, renamed_count)[1]
              /\ renamed_count' = FailedRename(files, renamed_count)[2]
              /\ log' = log \o <<Event("error", index + 1, 0, PathName(pdf_file))>>
              /\ UNCHANGED moves
    /\ pc' = IF Len(log') > Len(log) /\ log'[Len(log')].kind = "error"
             THEN "finally" ELSE "next"
    /\ UNCHANGED <<ui, start_button, dirs, name_list, total_files, batch, index,
                   pdf_file, pdf_content, ni, found_name, new_filename,
                   new_filepath, errors, ended, cfg0>>
    /\ UNCHANGED <<counters, threads>>

\* lines 424-427, and 431-432 when os.rename raises
rename_files_move ==
    /\ pc = "move"
    /\ \E permitted \in BOOLEAN :
         IF permitted /\ CanRename(pdf_file, new_filepath)
         THEN /\ files' = Renamed(pdf_file, new_filepath)
              /\ moves' = Append(moves,
                     [src |-> pdf_file, dst |-> new_filepath, idx |-> index + 1,
                      text |-> pdf_content, name |-> found_name,
                      existed |-> Exists(new_filepath)])
              /\ log' = log \o <<Event("renamed", index + 1, 0,
                                       PathName(new_filepath))>>
              /\ renamed_count' = renamed_count + 1
         ELSE /\ files' = FailedRename(files, renamed_count)[1]
              /\ renamed_count' = FailedRename(files, renamed_count)[2]
              /\ log' = log \o <<Event("error", index + 1, 0, PathName(pdf_file))>>
              /\ UNCHANGED moves
    /\ pc' = "next"
    /\ UNCHANGED <<ui, start_button, dirs, name_list, total_files, batch, index,
                   pdf_file, pdf_content, ni, found_name, new_filename,
                   new_filepath, errors, ended, cfg0>>
    /\ UNCHANGED <<counters, threads>>

\* lines 434-438
rename_files_summary ==
    /\ pc = "summary"
    /\ log' = log \o <<Event("completed", renamed_count, total_files, <<>>)>>
    /\ ended' = "completed"
    /\ pc' = "finally"
    /\ UNCHANGED <<ui, start_button, env, locals, moves, errors, cfg0>>
    /\ UNCHANGED <<counters, threads>>

\* A thread wrapper without try/finally: the button is re-enabled only when
\* rename_files ran to its end.
rename_files_thread_NoFinally ==
    /\ pc = "finally"
    /\ start_button' = IF ended = "completed" THEN "normal" ELSE start_button
    /\ threads' = threads - 1
    /\ pc' = "idle"
    /\ name_list' = <<>> /\ renamed_count' = 0 /\ total_files' = 0
    /\ batch' = <<>> /\ index' = -1 /\ pdf_file' = <<>> /\ pdf_content' = <<>>
    /\ ni' = 0 /\ found_name' = None /\ new_filename' = <<>>
    /\ new_filepath' = <<>>
    /\ log' = <<>> /\ moves' = <<>> /\ errors' = 0 /\ ended' = "none"
    /\ cfg0' = NoSnapshot
    /\ edits' = 0
    /\ UNCHANGED <<ui, env, batches>>

\* rename_files_thread, lines 454-460: the end of the thread, on every way out
\* of rename_files
rename_files_thread ==
    /\ pc = "finally"
    /\ start_button' = "normal"
    /\ threads' = threads - 1
    /\ pc' = "idle"
    /\ name_list' = <<>> /\ renamed_count' = 0 /\ total_files' = 0
    /\ batch' = <<>> /\ index' = -1 /\ pdf_file' = <<>> /\ pdf_content' = <<>>
    /\ ni' = 0 /\ found_name' = None /\ new_filename' = <<>>
    /\ new_filepath' = <<>>
    /\ log' = <<>> /\ moves' = <<>> /\ errors' = 0 /\ ended' = "none"
    /\ cfg0' = NoSnapshot
    /\ edits' = 0
    /\ UNCHANGED <<ui, env, batches>>

\* ------------------------------------------------------ specifications
MainThread ==
    \/ select_pdf_files \/ select_csv_file \/ select_output_dir \/ clear_all
    \/ toggle_case_sensitive \/ toggle_fully_rename \/ start_renaming

Worker ==
    \/ rename_files_check \/ rename_files_makedirs \/ rename_files_load
    \/ rename_files_total \/ rename_files_iter \/ rename_files_next
    \/ rename_files_read \/ rename_files_match \/ rename_files_name
    \/ rename_files_unique \/ rename_files_move \/ rename_files_summary
    \/ rename_files_thread

Next == MainThread \/ Worker

Spec == Init /\ [][Next]_vars

\* The worker thread is scheduled for as long as it has a step to take.
FairSpec == Spec /\ WF_vars(Worker)

\* ------------------------------------------- the matching loop by itself
MatchAlphabet == {"a", "A", "b"}

Strings(n) == UNION {[1..k -> MatchAlphabet] : k \in 1..n}

\* The worker about to run the loop of lines 396-404 on the only file of its
\* list, for every catalog of at most MaxCat names of one or two characters,
\* every non-empty text of at most MaxText characters, and either case rule.
MatchInit ==
    /\ name_list \in UNION {[1..k -> Strings(1 + 1)] : k \in 1..MaxCat}
    /\ pdf_content \in Strings(MaxText)
    /\ case_sensitive_var \in BOOLEAN
    /\ fully_rename_var = FALSE
    /\ pdf_files = <<SrcPath(1)>> /\ csv_file = "names.csv"
    /\ output_dir = OutDir
    /\ start_button = "disabled"
    /\ files = [q \in SrcPaths |-> pdf_content]
    /\ dirs = {<<>>, SrcDir, OutDir}
    /\ threads = 1 /\ pc = "match"
    /\ renamed_count = 0 /\ total_files = 1 /\ batch = pdf_files /\ index = 0
    /\ pdf_file = SrcPath(1) /\ ni = 1 /\ found_name = None
    /\ new_filename = <<>> /\ new_filepath = <<>>
    /\ log = <<Event("loaded", 0, Len(name_list), <<>>),
               Event("progress", 1, 1, PathName(SrcPath(1)))>>
    /\ moves = <<>> /\ errors = 0 /\ ended = "running"
    /\ cfg0 = Snapshot
    /\ batches = 1 /\ edits = 0

MatchSpec == MatchInit /\ [][rename_files_match]_vars

\* --------------------------------------- the filename resolver by itself
ResolveNames == {<<"b">>, <<"a", "b">>}

\* stem, stem_1, ..., stem_k as file names
Numbered(stem, k) ==
    (IF k = 0 THEN stem ELSE stem \o <<"_">> \o Str(k)) \o PdfExt

\* The paths of the output directory a file may already be at.
TakenPaths ==
    {Join(OutDir, Numbered(st, k)) :
        st \in ResolveNames \cup {n \o <<"_">> \o PathStem(SrcPath(1)) :
                                     n \in ResolveNames},
        k \in 0..MaxTaken}

\* The worker after the matching loop found a name for the only file of its
\* list, for either rename mode and every set of files in the output directory.
ResolveInit ==
    /\ found_name \in ResolveNames
    /\ fully_rename_var \in BOOLEAN
    /\ \E taken \in SUBSET TakenPaths :
         files = [q \in SrcPaths \cup taken |-> found_name]
    /\ case_sensitive_var = TRUE
    /\ pdf_files = <<SrcPath(1)>> /\ csv_file = "names.csv"
    /\ output_dir = OutDir
    /\ start_button = "disabled"
    /\ dirs = {<<>>, SrcDir, OutDir}
    /\ threads = 1 /\ pc = "name"
    /\ name_list = <<found_name>>
    /\ renamed_count = 0 /\ total_files = 1 /\ batch = pdf_files /\ index = 0
    /\ pdf_file = SrcPath(1) /\ pdf_content = found_name /\ ni = 1
    /\ new_filename = <<>> /\ new_filepath = <<>>
    /\ log = <<Event("loaded", 0, 1, <<>>),
               Event("progress", 1, 1, PathName(SrcPath(1)))>>
    /\ moves = <<>> /\ errors = 0 /\ ended = "running"
    /\ cfg0 = Snapshot
    /\ batches = 1 /\ edits = 0

ResolveNext == rename_files_name \/ rename_files_unique

ResolveSpec == ResolveInit /\ [][ResolveNext]_vars

\* ================================================================ claims
\* Whether name occurs in text at some position, character by character.
OccursIn(name, text) ==
    \E k \in 1..Len(text) :
        /\ k + Len(name) - 1 <= Len(text)
        /\ \A m \in 1..Len(name) : text[k + m - 1] = name[m]

\* The case rule: exact, or both sides lowercased.
MatchesUnder(name, text, case_sensitive) ==
    IF case_sensitive THEN OccursIn(name, text)
    ELSE OccursIn(Lower(name), Lower(text))

\* The first element of the catalog, in catalog order, that occurs in the text;
\* None when no element does.
FirstMatch(catalog, text, case_sensitive) ==
    IF \E i \in 1..Len(catalog) : MatchesUnder(catalog[i], text, case_sensitive)
    THEN catalog[CHOOSE i \in 1..Len(catalog) :
                    /\ MatchesUnder(catalog[i], text, case_sensitive)
                    /\ \A j \in 1..(i - 1) :
                          ~MatchesUnder(catalog[j], text, case_sensitive)]
    ELSE None

\* C1: when the matching loop is over, found_name is the first name of the
\* catalog, in catalog order, that is a substring of the text under the case
\* rule in force (exact, or both sides lowercased), and None when no name of
\* the catalog occurs in the text; where in the text a name occurs plays no part.
C1_FirstMatch ==
    pc = "name" => found_name = FirstMatch(name_list, pdf_content, case_sensitive_var)

\* C1 witness: the loop ended on the first catalog entry although the second
\* entry occurs earlier in the text, under the lowercasing rule.
C1_Witness ==
    /\ pc = "name"
    /\ ~case_sensitive_var
    /\ name_list = << <<"b">>, <<"a">> >>
    /\ pdf_content = <<"A", "b">>
    /\ found_name = <<"b">>

\* C2: the path handed to os.rename has the stem found_name (replace mode) or
\* found_name_<original stem> (append mode); it is directory/stem.pdf when no
\* such file exists, and otherwise the lowest-numbered directory/stem_k.pdf,
\* k >= 1, that does not exist.
C2_Destination ==
    pc = "move" =>
        LET stem == IF fully_rename_var THEN found_name
                    ELSE found_name \o <<"_">> \o PathStem(pdf_file)
            Cand(k) == Join(output_dir, Numbered(stem, k))
        IN /\ Cand(0) \notin DOMAIN files => new_filepath = Cand(0)
           /\ Cand(0) \in DOMAIN files =>
                 \E k \in 1..(Cardinality(DOMAIN files) + 1) :
                    /\ new_filepath = Cand(k)
                    /\ Cand(k) \notin DOMAIN files
                    /\ \A j \in 0..(k - 1) : Cand(j) \in DOMAIN files

\* C2 witness: append mode, with stem.pdf and stem_1.pdf both taken, so that
\* the resolver chose stem_2.pdf.
C2_Witness ==
    /\ pc = "move"
    /\ ~fully_rename_var
    /\ found_name = <<"b">>
    /\ new_filepath = Join(OutDir, Numbered(<<"b", "_", "x">>, 2))

\* ------------------------------------------------ reading the history
OutcomeKinds == {"renamed", "no match", "could not read", "error"}

\* The positions in the log of the events of these kinds about file i of the list.
EventsOf(kinds, i) ==
    {k \in 1..Len(log) : log[k].kind \in kinds /\ log[k].idx = i}

\* C3: every os.rename of a run that succeeded moved a different file of the
\* list, a file whose text had been read and was not empty and in which the
\* name used occurs, to a path at which nothing existed when it was moved; no
\* file of the filesystem is ever lost.
C3_MoveOnceNoOverwrite ==
    /\ \A i, j \in 1..Len(moves) :
          (moves[i].src = moves[j].src \/ moves[i].idx = moves[j].idx) => i = j
    /\ \A i \in 1..Len(moves) :
          /\ ~moves[i].existed
          /\ moves[i].src = batch[moves[i].idx]
          /\ moves[i].text # <<>>
          /\ moves[i].text = files[moves[i].dst]
          /\ \E k \in 1..Len(name_list) :
                /\ name_list[k] = moves[i].name
                /\ \E cs \in BOOLEAN : MatchesUnder(moves[i].name, moves[i].text, cs)
          /\ EventsOf({"read error", "could not read", "no match"}, moves[i].idx) = {}
    /\ Cardinality(DOMAIN files) = MaxFiles

\* C3 witness: two files of one run matched the same name, and the second was
\* moved to the numbered sibling of the first one's destination.
C3_Witness ==
    /\ Len(moves) = 2
    /\ moves[1].dst = Join(OutDir, Numbered(<<"b">>, 0))
    /\ moves[2].dst = Join(OutDir, Numbered(<<"b">>, 1))

\* Every file of the list the worker iterates has an outcome in the log.
AllProcessed ==
    \A i \in 1..Len(batch) : EventsOf(OutcomeKinds, i) # {}

\* C4: once the worker is in its loop over the files, it reaches the summary,
\* with every file of the list processed, whatever reads and moves failed.
C4_BatchCompletes ==
    (pc = "read") ~> (pc = "finally" /\ ended = "completed" /\ AllProcessed)

\* C4 witness: the summary of a run of two files in which the read of the
\* first failed and the move of the second failed.
C4_Witness ==
    /\ pc = "finally" /\ ended = "completed"
    /\ Len(batch) = 2
    /\ EventsOf({"read error"}, 1) # {}
    /\ EventsOf({"error"}, 2) # {}
    /\ renamed_count = 0

\* C5: the tally of the summary is the number of files moved in the run and
\* the number of files of the list the run went through, and
\* 0 <= renamed_count <= total at every point of the run.
C5_Tally ==
    /\ 0 <= renamed_count /\ renamed_count <= total_files
    /\ renamed_count = Len(moves)
    /\ (pc = "finally" /\ ended = "completed") =>
          log[Len(log)] = Event("completed", Len(moves), Len(batch), <<>>)

\* C6: a step in which os.rename failed recorded the error against the file,
\* left the filesystem as it was (the source in place, nothing at the
\* destination) and the count as it was, and went on to the next file.
C6_FailedMove ==
    [][(pc = "move" /\ Len(log') > Len(log) /\ log'[Len(log')].kind = "error") =>
          /\ log' = Append(log, Event("error", index + 1, 0, PathName(pdf_file)))
          /\ files' = files /\ dirs' = dirs
          /\ pdf_file \in DOMAIN files' /\ new_filepath \notin DOMAIN files'
          /\ renamed_count' = renamed_count
          /\ moves' = moves
          /\ pc' = "next" /\ index' = index /\ batch' = batch]_vars

\* C6 witness: the worker after a failed move of the first of two files, the
\* file still at its source path.
C6_Witness ==
    /\ pc = "next" /\ index = 0 /\ Len(batch) = 2
    /\ log # <<>> /\ log[Len(log)].kind = "error"
    /\ batch[1] \in DOMAIN files
    /\ renamed_count = 0

\* The outcome events of the files that are still at their path and whose
\* extraction succeeds with the empty string.
EmptyTextOutcomes ==
    {k \in 1..Len(log) :
        /\ log[k].kind \in OutcomeKinds
        /\ batch[log[k].idx] \in DOMAIN files
        /\ files[batch[log[k].idx]] = <<>>}

\* C7, as claimed: a file whose extraction succeeds with the empty string has
\* the outcome NoMatch, and is not moved.
C7_EmptyIsNoMatch ==
    \A k \in EmptyTextOutcomes :
        /\ log[k].kind = "no match"
        /\ \A i \in 1..Len(moves) : moves[i].idx # log[k].idx

\* C7, amended: a file whose extraction succeeds with the empty string gets the
\* "could not read content" outcome that a failed extraction gets, never the
\* "no matching name" outcome; what tells it from a failed extraction is that
\* no "error reading PDF" line comes before; the file is not moved.
C7_EmptyIsCouldNotRead ==
    /\ \A k \in EmptyTextOutcomes :
          /\ log[k].kind = "could not read"
          /\ EventsOf({"read error", "no match"}, log[k].idx) = {}
          /\ \A i \in 1..Len(moves) : moves[i].idx # log[k].idx
    /\ \A k \in 1..Len(log) :
          (log[k].kind = "could not read" /\ k \notin EmptyTextOutcomes) =>
              /\ k > 1
              /\ log[k - 1] = Event("read error", log[k].idx, 0, batch[log[k].idx])

\* C7 witness: the first file of the list has no text, and its outcome is in
\* the log.
C7_Witness ==
    /\ pc = "next" /\ index = 0
    /\ files[batch[1]] = <<>>
    /\ EventsOf({"could not read"}, 1) # {}

\* C8: every file of a run is matched and moved with the configuration the
\* start button was pressed with: the list, the catalog, the output
\* directory, the case rule and the rename mode.
C8_ConfigurationFixed ==
    /\ pc \in {"total", "iter", "next", "read", "match", "name", "unique",
               "move", "summary"} => name_list = load_name_list(cfg0.csv_file)
    /\ pc \in {"next", "read", "match", "name", "unique", "move", "summary"} =>
          batch = cfg0.pdf_files
    /\ \A i \in 1..Len(moves) :
          /\ moves[i].name =
                FirstMatch(load_name_list(cfg0.csv_file), moves[i].text,
                           cfg0.case_sensitive_var)
          /\ Dirname(moves[i].dst) = cfg0.output_dir
          /\ \E k \in 0..MaxFiles :
                PathName(moves[i].dst) =
                    Numbered(NewFilename(moves[i].name, PathStem(moves[i].src),
                                         cfg0.fully_rename_var), k)

\* The outcome of file i of the list comes before its progress event.
ProcessedBeforeProgress(i) ==
    \A k \in EventsOf({"progress"}, i) :
        \E o \in EventsOf(OutcomeKinds, i) : o < k

\* The progress events of the log, in the order they were made.
ProgressEvents == SelectSeq(log, LAMBDA e : e.kind = "progress")

\* C9, as claimed: one progress event for each file, in the order of the list,
\* made after the file has been processed and before the next file is attempted.
C9_ProgressAfterFile ==
    /\ \A i \in 1..Len(ProgressEvents) :
          ProgressEvents[i] = Event("progress", i, total_files, PathName(batch[i]))
    /\ \A i \in 1..Len(batch) : ProcessedBeforeProgress(i)

\* C9, amended: the progress events made so far are those of the files
\* 1..index+1 of the list, one each and in the order of the list, each with the
\* total computed before the loop and the file's name; the event of a file is
\* made before the file is read, so it comes before the file's outcome and
\* after the outcome of the file before it; at the summary every file of the
\* list has had its event, whatever its outcome was.
C9_ProgressBeforeFile ==
    /\ \A i \in 1..Len(ProgressEvents) :
          ProgressEvents[i] = Event("progress", i, total_files, PathName(batch[i]))
    /\ pc \in {"read", "match", "name", "unique", "move"} =>
          Len(ProgressEvents) = index + 1
    /\ pc \in {"next", "summary"} => Len(ProgressEvents) = index + 1
    /\ (pc = "finally" /\ ended = "completed") =>
          /\ Len(ProgressEvents) = Len(batch)
          /\ AllProcessed
    /\ \A i \in 1..Len(batch) :
          \A o \in EventsOf(OutcomeKinds, i) :
              /\ \E k \in EventsOf({"progress"}, i) : k < o
              /\ \A k \in EventsOf({"progress"}, i + 1) : o < k
    /\ \A i \in 1..Len(batch) : Cardinality(EventsOf(OutcomeKinds, i)) <= 1

\* C9 witness: the summary of a run of two files, the first unreadable and the
\* second renamed, with both progress events made.
C9_Witness ==
    /\ pc = "finally" /\ ended = "completed"
    /\ Len(ProgressEvents) = 2
    /\ EventsOf({"could not read"}, 1) # {}
    /\ EventsOf({"renamed"}, 2) # {}

\* No event about a file, and no summary.
NoFileEvents ==
    \A k \in 1..Len(log) : log[k].kind \in {"csv error"}

\* C10, as claimed: when rename_files finds a selection missing or no name in
\* the catalog, the condition is shown once and nothing else has happened: no
\* file was read or moved, the filesystem is as it was when the start button
\* was pressed (the output directory was not created), and there is no
\* outcome and no summary.
C10_RejectedWithoutEffect ==
    ended \in {"unselected", "no names"} =>
        /\ errors = 1
        /\ files = cfg0.files /\ moves = <<>>
        /\ dirs = cfg0.dirs
        /\ NoFileEvents

\* C10, amended: a press of the start button with a selection missing shows
\* one error dialog and starts no worker; a worker that finds a selection
\* missing shows one error dialog and changes nothing; a worker that finds the
\* catalog unreadable or without names shows one error dialog (after the log
\* line of the read failure) and has read and moved no file and produced no
\* outcome and no summary, but it has created the output directory if that did
\* not exist, since os.makedirs runs before the catalog is loaded.
C10_RejectedBatch ==
    /\ [](ended \in {"unselected", "no names"} =>
            /\ errors = 1
            /\ files = cfg0.files /\ moves = <<>>
            /\ NoFileEvents
            /\ ended = "unselected" => dirs = cfg0.dirs /\ log = <<>>
            /\ ended = "no names" =>
                  /\ \E d \in dirs : dirs = cfg0.dirs \cup {d}
                  /\ Len(log) <= 1)
    /\ [][ended' = "not started" =>
            /\ errors' = 1 /\ log' = <<>>
            /\ pc' = pc /\ start_button' = start_button
            /\ files' = files /\ dirs' = dirs]_vars

\* C10 witness: a worker ended on a catalog without names, and the output
\* directory exists now that did not exist when the start button was pressed.
C10_Witness ==
    /\ pc = "finally" /\ ended = "no names"
    /\ errors = 1
    /\ OutDir \in dirs /\ OutDir \notin cfg0.dirs

\* C11: at most one worker thread exists at any time; the start button is
\* disabled from the press that starts a worker until that worker has ended,
\* and it is enabled again once the worker has ended, whichever way
\* rename_files was left (its summary, a rejected precondition, an exception
\* nothing caught), so that the next batch can be started.
C11_OneWorker ==
    /\ threads <= 1
    /\ pc # "idle" <=> threads = 1
    /\ pc # "idle" => start_button = "disabled"
    /\ pc = "idle" => start_button = "normal"

\* C11 witness: a second worker, started after the first one had ended, is
\* leaving rename_files by an exception, the button still disabled.
C11_Witness ==
    /\ batches = 2 /\ threads = 1
    /\ pc = "finally" /\ ended = "exception"
    /\ start_button = "disabled"

====
